---- MODULE Spec2Model ----
(***************************************************************************)
(* Model of src/mqtt_tunnels.py: the tunnel worker thread                  *)
(* (UnixSocketTunneler.tunnel), the startup wait (wait_for_broker_socket)  *)
(* and the discovery loop (watch_msg_sockets).                             *)
(*                                                                         *)
(* Spec      one tunnel worker with its two peers (client, broker)         *)
(* FairSpec  Spec plus the scheduling of the worker thread                 *)
(* WatchSpec the main thread: wait_for_broker_socket, then the discovery   *)
(*           loop and the threads it starts                                *)
(***************************************************************************)
EXTENDS Integers, Sequences, FiniteSets, TLC

\* ---------------------------------------------------------------- bounds
\* bytes each peer writes on one connection
MaxBytes == 2
\* number of distinct entry names the messaging directory can hold
MaxNames == 2

\* ------------------------------------------------------------- constants
\* the size passed to recv (literal 4096 at both recv calls)
RecvSize == 4096

Sides == {"client", "broker"}

VARIABLES
    \* ---- tunnel worker (UnixSocketTunneler.tunnel)
    pc,                       \* position of the worker thread
    client_sock,              \* tunnel's local client_sock
    broker_sock,              \* tunnel's local broker_sock
    helper_sock,              \* client_sock local to __connect_to_client_socket_and_wait_for_data
    client_to_broker_buffer,
    broker_to_client_buffer,
    readable,                 \* result of select: sides reported read-ready
    writable,                 \* result of select: sides reported write-ready
    reason,                   \* why the current attempt left the try block
    slept,                    \* number of time.sleep(1) executed since the attempt ended (0 or 1)
    \* ---- the two peers and the transport
    inflight,                 \* [side -> bytes written by that peer, not yet read by recv]
    rcvd,                     \* [side -> bytes recv returned from that side on this connection]
    delivered,                \* [side -> bytes send accepted for that side on this connection]
    peer_closed,              \* [side -> the peer closed its end of this connection]
    \* ---- the tunneler object (UnixSocketTunneler.__init__) and its connects
    client_socket_path,       \* self.client_socket_path
    broker_socket_path,       \* self.broker_socket_path
    self_n_socket,            \* self.n_socket
    client_addr,              \* address given to the last client_sock.connect
    broker_addr,              \* address given to the last broker_sock.connect
    \* ---- main thread and discovery (wait_for_broker_socket, watch_msg_sockets)
    mpc,                      \* position of the main thread / watcher
    broker_dir,               \* entries matched by the broker find command
    msg_dir,                  \* entries matched by the messaging find command
    broker_files,             \* wait_for_broker_socket's local files
    files,                    \* watch_msg_sockets' local files (last listing)
    sockets,                  \* watch_msg_sockets' local sockets (Discovery Set)
    n_socket,                 \* watch_msg_sockets' local n_socket
    threads,                  \* threads started so far: sequence of [file, n_socket]
    \* ---- the started threads seen together (create_msg_tunnel running in each)
    workers,                  \* workers[i]: where thread i is in tunnel()
    \* ---- one MqttClient object (mqtt_client.py)
    connection_type,          \* self.connection_type
    mqtt_client,              \* self.mqtt_client: "None" or "set"
    connected,                \* self.connected
    is_starting,              \* self.is_starting
    loop_running,             \* the network loop thread of mqtt_client runs
    subscriptions,            \* self.__subscriptions
    connect_calls,            \* history: calls of mqtt_client.connect so far
    unsub_issued,             \* history: topics of mqtt_client.unsubscribe in the last call
    last,                     \* history: the last call and how it ended
    \* ---- the MqttClient class and its instances (mqtt_client.py)
    message_callbacks,        \* MqttClient.__message_callbacks (class attribute)
    connected_callbacks,      \* MqttClient.__connected_callbacks (class attribute)
    own_message,              \* history: message callbacks added through each client and not removed through it
    own_connected,            \* history: connected callbacks added through each client
    invoked                   \* history: the last dispatch: client, event, callbacks called

tunnelerVars == <<client_socket_path, broker_socket_path, self_n_socket,
                  client_addr, broker_addr>>
tunnelVars == <<pc, client_sock, broker_sock, helper_sock, client_to_broker_buffer,
                broker_to_client_buffer, readable, writable, reason, slept,
                inflight, rcvd, delivered, peer_closed, tunnelerVars>>
watchVars == <<mpc, broker_dir, msg_dir, broker_files, files, sockets, n_socket, threads>>
poolVars == <<workers>>
clientVars == <<connection_type, mqtt_client, connected, is_starting, loop_running,
                subscriptions, connect_calls, unsub_issued, last>>
callbackVars == <<message_callbacks, connected_callbacks, own_message, own_connected, invoked>>
vars == <<pc, client_sock, broker_sock, helper_sock, client_to_broker_buffer,
          broker_to_client_buffer, readable, writable, reason, slept,
          inflight, rcvd, delivered, peer_closed,
          client_socket_path, broker_socket_path, self_n_socket, client_addr, broker_addr,
          mpc, broker_dir, msg_dir, broker_files, files, sockets, n_socket, threads,
          workers,
          connection_type, mqtt_client, connected, is_starting, loop_running,
          subscriptions, connect_calls, unsub_issued, last,
          message_callbacks, connected_callbacks, own_message, own_connected, invoked>>

\* ------------------------------------------------------------- helpers
Min(a, b) == IF a < b THEN a ELSE b

Empty == [s \in Sides |-> <<>>]

\* the content of the k-th byte a peer writes on a connection: unique per side
\* and per position, so that any loss, duplication or reordering shows
ByteOf(side, k) == (IF side = "client" THEN 100 ELSE 200) + k

\* bytes the peer has written on the current connection
Written(side) == rcvd[side] \o inflight[side]

\* lines 122 and 140: buffer += data
Extend(buffer, data) == buffer \o data

\* faulty variant of Trim: takes the whole buffer as delivered
Trim_AssumeFull(buffer, sent) == <<>>

\* faulty variant of Trim: one byte more than accepted is dropped
Trim_OneMore(buffer, sent) == SubSeq(buffer, sent + 2, Len(buffer))

\* lines 158 and 171: buffer = buffer[sent:]
Trim(buffer, sent) == SubSeq(buffer, sent + 1, Len(buffer))

\* faulty variant of Close: the socket is left as it was
Close_Noop(sock) == sock

\* lines 178-179: sock.close(), which is idempotent on a socket object
Close(sock) == "closed"

\* the client connection is established from the worker's side
ClientConnected == helper_sock = "connected" \/ client_sock = "open"

BrokerConnected == broker_sock = "connected"

Relaying == pc \in {"select", "recv_client", "recv_broker", "send_broker", "send_client"}

\* faulty variant of BrokerSocketPath: built on the configured broker path
BrokerSocketPath_Configured(n) == <<broker_socket_path[1], n, ".sock">>

\* line 95: f"/tmp/mqtt_msg_{self.n_socket}.sock"
BrokerSocketPath(n) == <<"/tmp/mqtt_msg_", n, ".sock">>

\* no connect was called yet
NoAddr == <<>>

\* line 41: BROKER_SOCKETS_PATH = "/var/run", or the --broker_path argument
BrokerPaths == {<<"/var/run">>, <<"/run/mosquitto">>}

\* ------------------------------------------------------------ initial state
\* the worker's locals before the first attempt
WorkerInit ==
    /\ pc = "create_broker_sock"
    /\ client_sock = "unbound"
    /\ broker_sock = "unbound"
    /\ helper_sock = "none"
    /\ client_to_broker_buffer = <<>>
    /\ broker_to_client_buffer = <<>>
    /\ readable = {}
    /\ writable = {}
    /\ reason = "none"
    /\ slept = 0
    /\ inflight = Empty
    /\ rcvd = Empty
    /\ delivered = Empty
    /\ peer_closed = [s \in Sides |-> FALSE]
    /\ client_addr = NoAddr
    /\ broker_addr = NoAddr

\* lines 71-74 and 213: UnixSocketTunneler(client_socket, BROKER_SOCKETS_PATH, n_socket)
TunnelerInit(client_socket, broker_path, n) ==
    /\ client_socket_path = client_socket
    /\ broker_socket_path = broker_path
    /\ self_n_socket = n

\* one worker, for the first discovered socket, with the default broker path
TunnelInit ==
    /\ WorkerInit
    /\ TunnelerInit(<<"a">>, <<"/var/run">>, 1)

\* ----------------------------------------------------- the peers (environment)
\* a peer writes one more byte on its connection
PeerWrite(side) ==
    /\ IF side = "client" THEN ClientConnected ELSE BrokerConnected
    /\ ~peer_closed[side]
    /\ Len(Written(side)) < MaxBytes
    /\ inflight' = [inflight EXCEPT ![side] = Append(@, ByteOf(side, Len(Written(side)) + 1))]
    /\ UNCHANGED <<pc, client_sock, broker_sock, helper_sock, client_to_broker_buffer,
                   broker_to_client_buffer, readable, writable, reason, slept,
                   rcvd, delivered, peer_closed>>
    /\ UNCHANGED tunnelerVars

\* a peer closes its end of the connection
PeerClose(side) ==
    /\ IF side = "client" THEN ClientConnected ELSE BrokerConnected
    /\ ~peer_closed[side]
    /\ peer_closed' = [peer_closed EXCEPT ![side] = TRUE]
    /\ UNCHANGED <<pc, client_sock, broker_sock, helper_sock, client_to_broker_buffer,
                   broker_to_client_buffer, readable, writable, reason, slept,
                   inflight, rcvd, delivered>>
    /\ UNCHANGED tunnelerVars

\* ------------------------------------------------------------ tunnel worker
\* an exception caught by `except socket.error`, or a break: control goes to finally
ToFinally(why) ==
    /\ pc' = "finally"
    /\ reason' = why

\* line 90: broker_sock = socket.socket(...); a new attempt starts here
\* (the connection state of the previous attempt is gone with its sockets)
CreateBrokerSock ==
    /\ pc = "create_broker_sock"
    /\ broker_sock' = "created"
    /\ pc' = "connect_client"
    /\ reason' = "none"
    /\ slept' = 0
    /\ inflight' = Empty
    /\ rcvd' = Empty
    /\ delivered' = Empty
    /\ peer_closed' = [s \in Sides |-> FALSE]
    /\ helper_sock' = "none"
    /\ UNCHANGED <<client_sock, client_to_broker_buffer, broker_to_client_buffer,
                   readable, writable>>
    /\ UNCHANGED tunnelerVars

\* lines 189-190: the helper creates its socket and connects to client_socket_path
ConnectClient ==
    /\ pc = "connect_client"
    /\ \/ /\ helper_sock' = "connected"
          /\ pc' = "wait_for_data"
          /\ UNCHANGED reason
       \/ \* connect raises: the helper's socket is dropped without a close
          /\ helper_sock' = "dropped"
          /\ ToFinally("client_connect_failed")
    /\ UNCHANGED <<client_sock, broker_sock, client_to_broker_buffer,
                   broker_to_client_buffer, readable, writable, slept,
                   inflight, rcvd, delivered, peer_closed>>
    /\ client_addr' = client_socket_path
    /\ UNCHANGED <<client_socket_path, broker_socket_path, self_n_socket, broker_addr>>

\* lines 194-197: select([client_sock], [], []) without timeout returns once the
\* socket is read-ready, i.e. data is pending or the peer has closed (end of file)
WaitForData ==
    /\ pc = "wait_for_data"
    /\ inflight["client"] # <<>> \/ peer_closed["client"]
    /\ client_sock' = "open"
    /\ helper_sock' = "none"
    /\ pc' = "connect_broker"
    /\ UNCHANGED <<broker_sock, client_to_broker_buffer, broker_to_client_buffer,
                   readable, writable, reason, slept, inflight, rcvd, delivered, peer_closed>>
    /\ UNCHANGED tunnelerVars

\* lines 95-96: broker_sock.connect(f"/tmp/mqtt_msg_{n_socket}.sock")
ConnectBroker ==
    /\ pc = "connect_broker"
    /\ \/ /\ broker_sock' = "connected"
          /\ pc' = "select"
          /\ UNCHANGED reason
       \/ /\ ToFinally("broker_connect_failed")
          /\ UNCHANGED broker_sock
    /\ UNCHANGED <<client_sock, helper_sock, client_to_broker_buffer,
                   broker_to_client_buffer, readable, writable, slept,
                   inflight, rcvd, delivered, peer_closed>>
    /\ broker_addr' = BrokerSocketPath(self_n_socket)
    /\ UNCHANGED <<client_socket_path, broker_socket_path, self_n_socket, client_addr>>

\* faulty variant of WList: each socket is watched for the other direction's buffer
WList_Swapped == (IF broker_to_client_buffer # <<>> THEN {"broker"} ELSE {})
                 \cup (IF client_to_broker_buffer # <<>> THEN {"client"} ELSE {})

\* faulty variant of WList: both sockets are always watched for writing
WList_Always == Sides

\* the write-interest list built at lines 107-110
WList == (IF client_to_broker_buffer # <<>> THEN {"broker"} ELSE {})
         \cup (IF broker_to_client_buffer # <<>> THEN {"client"} ELSE {})

\* sides on which a recv would not block
ReadReady == {s \in Sides : inflight[s] # <<>> \/ peer_closed[s]}

\* lines 99-112: build rlist/wlist, block in select until something is ready
Select ==
    /\ pc = "select"
    /\ \E w \in SUBSET WList :
          /\ ReadReady \cup w # {}
          /\ readable' = ReadReady
          /\ writable' = w
    /\ pc' = "recv_client"
    /\ UNCHANGED <<client_sock, broker_sock, helper_sock, client_to_broker_buffer,
                   broker_to_client_buffer, reason, slept, inflight, rcvd, delivered,
                   peer_closed>>
    /\ UNCHANGED tunnelerVars

\* lines 115-130: if client_sock in readable: data = client_sock.recv(4096)
RecvClient ==
    /\ pc = "recv_client"
    /\ \/ \* client_sock not in readable
          /\ "client" \notin readable
          /\ pc' = "recv_broker"
          /\ UNCHANGED <<client_to_broker_buffer, reason, inflight, rcvd>>
       \/ \* recv returns k >= 1 bytes: client_to_broker_buffer += data
          /\ "client" \in readable
          /\ \E k \in 1..Min(Len(inflight["client"]), RecvSize) :
                /\ client_to_broker_buffer' =
                       Extend(client_to_broker_buffer, SubSeq(inflight["client"], 1, k))
                /\ rcvd' = [rcvd EXCEPT !["client"] = @ \o SubSeq(inflight["client"], 1, k)]
                /\ inflight' = [inflight EXCEPT !["client"] = SubSeq(@, k + 1, Len(@))]
          /\ pc' = "recv_broker"
          /\ UNCHANGED reason
       \/ \* recv returns b'': the client closed, break
          /\ "client" \in readable
          /\ inflight["client"] = <<>>
          /\ peer_closed["client"]
          /\ ToFinally("client_closed")
          /\ UNCHANGED <<client_to_broker_buffer, inflight, rcvd>>
       \/ \* BlockingIOError: pass
          /\ "client" \in readable
          /\ pc' = "recv_broker"
          /\ UNCHANGED <<client_to_broker_buffer, reason, inflight, rcvd>>
       \/ \* any other socket.error
          /\ "client" \in readable
          /\ ToFinally("io_error")
          /\ UNCHANGED <<client_to_broker_buffer, inflight, rcvd>>
    /\ UNCHANGED <<client_sock, broker_sock, helper_sock, broker_to_client_buffer,
                   readable, writable, slept, delivered, peer_closed>>
    /\ UNCHANGED tunnelerVars

\* lines 133-147: if broker_sock in readable: data = broker_sock.recv(4096)
RecvBroker ==
    /\ pc = "recv_broker"
    /\ \/ /\ "broker" \notin readable
          /\ pc' = "send_broker"
          /\ UNCHANGED <<broker_to_client_buffer, reason, inflight, rcvd>>
       \/ /\ "broker" \in readable
          /\ \E k \in 1..Min(Len(inflight["broker"]), RecvSize) :
                /\ broker_to_client_buffer' =
                       Extend(broker_to_client_buffer, SubSeq(inflight["broker"], 1, k))
                /\ rcvd' = [rcvd EXCEPT !["broker"] = @ \o SubSeq(inflight["broker"], 1, k)]
                /\ inflight' = [inflight EXCEPT !["broker"] = SubSeq(@, k + 1, Len(@))]
          /\ pc' = "send_broker"
          /\ UNCHANGED reason
       \/ /\ "broker" \in readable
          /\ inflight["broker"] = <<>>
          /\ peer_closed["broker"]
          /\ ToFinally("broker_closed")
          /\ UNCHANGED <<broker_to_client_buffer, inflight, rcvd>>
       \/ /\ "broker" \in readable
          /\ pc' = "send_broker"
          /\ UNCHANGED <<broker_to_client_buffer, reason, inflight, rcvd>>
       \/ /\ "broker" \in readable
          /\ ToFinally("io_error")
          /\ UNCHANGED <<broker_to_client_buffer, inflight, rcvd>>
    /\ UNCHANGED <<client_sock, broker_sock, helper_sock, client_to_broker_buffer,
                   readable, writable, slept, delivered, peer_closed>>
    /\ UNCHANGED tunnelerVars

\* lines 150-160: if broker_sock in writable and client_to_broker_buffer:
\*                    sent = broker_sock.send(buffer); buffer = buffer[sent:]
SendBroker ==
    /\ pc = "send_broker"
    /\ \/ /\ ~("broker" \in writable /\ client_to_broker_buffer # <<>>)
          /\ pc' = "send_client"
          /\ UNCHANGED <<client_to_broker_buffer, reason, delivered>>
       \/ \* the transport accepts the first sent bytes, 0 < sent <= len(buffer)
          /\ "broker" \in writable /\ client_to_broker_buffer # <<>>
          /\ ~peer_closed["broker"]
          /\ \E sent \in 1..Len(client_to_broker_buffer) :
                /\ delivered' = [delivered EXCEPT !["broker"] =
                                    @ \o SubSeq(client_to_broker_buffer, 1, sent)]
                /\ client_to_broker_buffer' = Trim(client_to_broker_buffer, sent)
          /\ pc' = "send_client"
          /\ UNCHANGED reason
       \/ \* BlockingIOError: pass
          /\ "broker" \in writable /\ client_to_broker_buffer # <<>>
          /\ pc' = "send_client"
          /\ UNCHANGED <<client_to_broker_buffer, reason, delivered>>
       \/ \* any other socket.error (broken pipe, reset)
          /\ "broker" \in writable /\ client_to_broker_buffer # <<>>
          /\ ToFinally("io_error")
          /\ UNCHANGED <<client_to_broker_buffer, delivered>>
    /\ UNCHANGED <<client_sock, broker_sock, helper_sock, broker_to_client_buffer,
                   readable, writable, slept, inflight, rcvd, peer_closed>>
    /\ UNCHANGED tunnelerVars

\* lines 163-173: if client_sock in writable and broker_to_client_buffer: ...
\* the end of the pass: the next pass rebuilds rlist and wlist
SendClient ==
    /\ pc = "send_client"
    /\ \/ /\ ~("client" \in writable /\ broker_to_client_buffer # <<>>)
          /\ pc' = "select" /\ readable' = {} /\ writable' = {}
          /\ UNCHANGED <<broker_to_client_buffer, reason, delivered>>
       \/ /\ "client" \in writable /\ broker_to_client_buffer # <<>>
          /\ ~peer_closed["client"]
          /\ \E sent \in 1..Len(broker_to_client_buffer) :
                /\ delivered' = [delivered EXCEPT !["client"] =
                                    @ \o SubSeq(broker_to_client_buffer, 1, sent)]
                /\ broker_to_client_buffer' = Trim(broker_to_client_buffer, sent)
          /\ pc' = "select" /\ readable' = {} /\ writable' = {}
          /\ UNCHANGED reason
       \/ /\ "client" \in writable /\ broker_to_client_buffer # <<>>
          /\ pc' = "select" /\ readable' = {} /\ writable' = {}
          /\ UNCHANGED <<broker_to_client_buffer, reason, delivered>>
       \/ /\ "client" \in writable /\ broker_to_client_buffer # <<>>
          /\ ToFinally("io_error")
          /\ UNCHANGED <<broker_to_client_buffer, delivered, readable, writable>>
    /\ UNCHANGED <<client_sock, broker_sock, helper_sock, client_to_broker_buffer,
                   slept, inflight, rcvd, peer_closed>>
    /\ UNCHANGED tunnelerVars

\* lines 177-181: finally: client_sock.close(); broker_sock.close(); both buffers = b''
\* client_sock is a local of tunnel that is bound only when the helper has
\* returned once: before that, client_sock.close() raises UnboundLocalError,
\* which nothing catches, and the thread ends
Finally ==
    /\ pc = "finally"
    /\ IF client_sock = "unbound"
       THEN /\ pc' = "dead"
            /\ UNCHANGED <<client_sock, broker_sock, client_to_broker_buffer,
                           broker_to_client_buffer>>
       ELSE /\ client_sock' = Close(client_sock)
            /\ broker_sock' = Close(broker_sock)
            /\ client_to_broker_buffer' = <<>>
            /\ broker_to_client_buffer' = <<>>
            /\ pc' = "sleep"
    /\ readable' = {}
    /\ writable' = {}
    /\ UNCHANGED <<helper_sock, reason, slept, inflight, rcvd, delivered, peer_closed>>
    /\ UNCHANGED tunnelerVars

\* faulty variant of Sleep: the next iteration starts without the sleep
Sleep_Skipped ==
    /\ pc = "sleep"
    /\ pc' = "create_broker_sock"
    /\ UNCHANGED <<client_sock, broker_sock, helper_sock, client_to_broker_buffer,
                   broker_to_client_buffer, readable, writable, reason, slept,
                   inflight, rcvd, delivered, peer_closed>>
    /\ UNCHANGED tunnelerVars

\* line 182: time.sleep(1), then the next iteration of the outer while True
Sleep ==
    /\ pc = "sleep"
    /\ slept' = slept + 1
    /\ pc' = "create_broker_sock"
    /\ UNCHANGED <<client_sock, broker_sock, helper_sock, client_to_broker_buffer,
                   broker_to_client_buffer, readable, writable, reason,
                   inflight, rcvd, delivered, peer_closed>>
    /\ UNCHANGED tunnelerVars

ClientWrites == PeerWrite("client")
BrokerWrites == PeerWrite("broker")
ClientCloses == PeerClose("client")
BrokerCloses == PeerClose("broker")

\* ------------------------------------------------- main thread and discovery
\* Text is a sequence of characters; a file name is a text without newline.
NL == "\n"
Whitespace == {NL, " "}

NameChars == <<"a", "b", "c", "d", "e", "f">>

\* the entry names the messaging directory can hold
Names == {<<NameChars[i]>> : i \in 1..MaxNames}

\* the entry names the broker find command can match
BrokerNames == {<<"m">>, <<"n">>}

\* the sequences that enumerate the set S once each
Perms(S) == {f \in [1..Cardinality(S) -> S] : \A i, j \in 1..Cardinality(S) : i # j => f[i] # f[j]}

Range(f) == {f[i] : i \in DOMAIN f}

\* stdout of find: one line per matching entry
RECURSIVE FindOutput(_)
FindOutput(entries) ==
    IF entries = <<>> THEN <<>>
    ELSE Head(entries) \o <<NL>> \o FindOutput(Tail(entries))

\* str.strip()
RECURSIVE StripLeft(_)
StripLeft(text) ==
    IF text # <<>> /\ Head(text) \in Whitespace THEN StripLeft(Tail(text)) ELSE text

RECURSIVE StripRight(_)
StripRight(text) ==
    IF text # <<>> /\ text[Len(text)] \in Whitespace
    THEN StripRight(SubSeq(text, 1, Len(text) - 1))
    ELSE text

Strip(text) == StripRight(StripLeft(text))

\* str.split("\n"): the empty text splits into one empty string
RECURSIVE Split(_)
Split(text) ==
    IF \A i \in 1..Len(text) : text[i] # NL
    THEN <<text>>
    ELSE LET i == CHOOSE k \in 1..Len(text) :
                     text[k] = NL /\ \A j \in 1..(k - 1) : text[j] # NL
         IN  <<SubSeq(text, 1, i - 1)>> \o Split(SubSeq(text, i + 1, Len(text)))

\* lines 225-226 and 248-249: files = result.stdout.strip().split("\n")
ParseListing(stdout) == Split(Strip(stdout))

\* faulty variant of NewFiles: the known names are not taken out
NewFiles_NoDiff(listed, known) == Range(listed)

\* line 251: new_files = set(files) - sockets
NewFiles(listed, known) == Range(listed) \ known

\* faulty variant of NextSlot: the counter does not advance
NextSlot_Same(n) == n

\* line 257: n_socket += 1
NextSlot(n) == n + 1

\* faulty variant of Update: the set is replaced by the last listing
Update_Replace(known, listed) == Range(listed)

\* line 259: sockets.update(files)
Update(known, listed) == known \cup Range(listed)

\* faulty variant of StartThreads: the empty name is not skipped
RECURSIVE StartThreads_NoSkip(_, _)
StartThreads_NoSkip(order, n) ==
    IF order = <<>> THEN <<>>
    ELSE <<[file |-> Head(order), n_socket |-> n]>>
         \o StartThreads_NoSkip(Tail(order), NextSlot(n))

\* lines 252-257: the threads started for the new files taken in the order `order`,
\* each with the current value of n_socket
RECURSIVE StartThreads(_, _)
StartThreads(order, n) ==
    IF order = <<>> THEN <<>>
    ELSE IF Head(order) = <<>>
         THEN StartThreads(Tail(order), n)
         ELSE <<[file |-> Head(order), n_socket |-> n]>>
              \o StartThreads(Tail(order), NextSlot(n))

\* faulty variant of SlotAfter: the counter advances before the empty name
\* is skipped
RECURSIVE SlotAfter_CountEmpty(_, _)
SlotAfter_CountEmpty(order, n) ==
    IF order = <<>> THEN n
    ELSE SlotAfter_CountEmpty(Tail(order), NextSlot(n))

\* n_socket after the for loop
RECURSIVE SlotAfter(_, _)
SlotAfter(order, n) ==
    IF order = <<>> THEN n
    ELSE IF Head(order) = <<>>
         THEN SlotAfter(Tail(order), n)
         ELSE SlotAfter(Tail(order), NextSlot(n))

WatchInit ==
    /\ mpc = "wait_for_broker_socket"
    /\ broker_dir = {}
    /\ msg_dir = {}
    /\ broker_files = <<>>
    /\ files = <<>>
    /\ sockets = {}
    /\ n_socket = 1
    /\ threads = <<>>

\* the file system changes under the program
FileAppears ==
    /\ \E name \in Names \ msg_dir : msg_dir' = msg_dir \cup {name}
    /\ UNCHANGED <<mpc, broker_dir, broker_files, files, sockets, n_socket, threads>>

FileDisappears ==
    /\ \E name \in msg_dir : msg_dir' = msg_dir \ {name}
    /\ UNCHANGED <<mpc, broker_dir, broker_files, files, sockets, n_socket, threads>>

BrokerSocketAppears ==
    /\ \E name \in BrokerNames \ broker_dir : broker_dir' = broker_dir \cup {name}
    /\ UNCHANGED <<mpc, msg_dir, broker_files, files, sockets, n_socket, threads>>

BrokerSocketDisappears ==
    /\ \E name \in broker_dir : broker_dir' = broker_dir \ {name}
    /\ UNCHANGED <<mpc, msg_dir, broker_files, files, sockets, n_socket, threads>>

\* lines 224-232: one pass of wait_for_broker_socket's loop; when it returns,
\* line 284 starts watch_msg_sockets
WaitForBrokerSocket ==
    /\ mpc = "wait_for_broker_socket"
    /\ \E listing \in Perms(broker_dir) :
          LET found == ParseListing(FindOutput(listing))
          IN  /\ broker_files' = found
              /\ IF Len(found) = 0
                 THEN mpc' = "wait_for_broker_socket"
                 ELSE mpc' = "watch_msg_sockets"
    /\ UNCHANGED <<broker_dir, msg_dir, files, sockets, n_socket, threads>>

\* lines 247-260: one pass of watch_msg_sockets' loop. find prints the matching
\* entries in some order, or nothing when the listing fails; the for loop takes
\* the new names in the iteration order of a set
WatchPoll ==
    /\ mpc = "watch_msg_sockets"
    /\ \E stdout \in {FindOutput(listing) : listing \in Perms(msg_dir)} \cup {<<>>} :
          LET found == ParseListing(stdout)
              new_files == NewFiles(found, sockets)
          IN  /\ files' = found
              /\ \E order \in Perms(new_files) :
                    /\ threads' = threads \o StartThreads(order, n_socket)
                    /\ n_socket' = SlotAfter(order, n_socket)
              /\ sockets' = Update(sockets, found)
    /\ UNCHANGED <<mpc, broker_dir, msg_dir, broker_files>>


\* ------------------------------------------------------------- MqttClient
MaxTopics == 3       \* longest subscription list
MaxConnects == 2     \* connection attempts followed

Topics == {"t/a", "t/b"}

ConnectionTypes == {"unix_socket", "serial_port", "tcp"}

\* list.remove(x): the list without the first occurrence of x
RECURSIVE Remove(_, _)
Remove(list, x) ==
    IF list = <<>> THEN <<>>
    ELSE IF Head(list) = x THEN Tail(list)
    ELSE <<Head(list)>> \o Remove(Tail(list), x)

\* lines 335-336: for topic in self.__subscriptions: self.unsubscribe(topic).
\* The iterator holds an index into the list that unsubscribe shortens;
\* i elements were visited, issued are the topics passed to the broker.
RECURSIVE UnsubscribeLoop(_, _, _)
UnsubscribeLoop(list, i, issued) ==
    IF i >= Len(list) THEN [subscriptions |-> list, issued |-> issued]
    ELSE UnsubscribeLoop(Remove(list, list[i + 1]), i + 1, Append(issued, list[i + 1]))

\* lines 187-188, 203-208
ClientInit(type) ==
    /\ connection_type = type
    /\ mqtt_client = "None"
    /\ connected = FALSE
    /\ is_starting = FALSE
    /\ loop_running = FALSE
    /\ subscriptions = <<>>
    /\ connect_calls = 0
    /\ unsub_issued = <<>>
    /\ last = <<"init", "done">>

\* lines 218-271, after the guard of line 215: a new client object, connect,
\* and loop_start if connect did not raise. In serial mode the exception
\* leaves start(), otherwise it is caught and start() returns. loop_before
\* tells whether a loop thread started earlier goes on running.
StartBody(raised, caller, loop_before) ==
    /\ connect_calls < MaxConnects
    /\ is_starting' = TRUE
    /\ mqtt_client' = "set"
    /\ connect_calls' = connect_calls + 1
    /\ loop_running' = IF raised THEN loop_before ELSE TRUE
    /\ last' = IF ~raised THEN <<caller, "connecting">>
               ELSE IF connection_type = "serial_port" THEN <<caller, "raised">>
               ELSE <<caller, "connect_failed">>

\* lines 213-274
start ==
    IF is_starting \/ connected
    THEN /\ last' = <<"start", "noop">>
         /\ UNCHANGED <<connection_type, mqtt_client, connected, is_starting,
                        loop_running, subscriptions, connect_calls, unsub_issued>>
    ELSE /\ \E raised \in BOOLEAN : StartBody(raised, "start", loop_running)
         /\ UNCHANGED <<connection_type, connected, subscriptions, unsub_issued>>

\* lines 372-381, called by the loop thread when the broker accepts
on_connected ==
    /\ loop_running
    /\ connected' = TRUE
    /\ is_starting' = FALSE
    /\ last' = <<"on_connected", "done">>
    /\ UNCHANGED <<connection_type, mqtt_client, loop_running, subscriptions,
                   connect_calls, unsub_issued>>

\* faulty variant of on_connection_lost: start() is called without the
\* two flags having been reset
on_connection_lost_NoReset ==
    /\ connection_type = "serial_port"
    /\ loop_running
    /\ IF is_starting \/ connected
       THEN /\ last' = <<"on_connection_lost", "noop">>
            /\ loop_running' = FALSE
            /\ UNCHANGED <<mqtt_client, connected, is_starting, connect_calls>>
       ELSE /\ connected' = FALSE
            /\ \E raised \in BOOLEAN :
                  StartBody(raised, "on_connection_lost", FALSE)
    /\ UNCHANGED <<connection_type, subscriptions, unsub_issued>>

\* lines 389-393, called by the serial loop thread (lines 113-117, 141-144),
\* which then ends; start() runs inside it
on_connection_lost ==
    /\ connection_type = "serial_port"
    /\ loop_running
    /\ connected' = FALSE
    /\ \E raised \in BOOLEAN :
          StartBody(raised, "on_connection_lost", FALSE)
    /\ UNCHANGED <<connection_type, subscriptions, unsub_issued>>

\* what the call sequence of lines 307-310 can do: run through, or raise in
\* disconnect (loop_stop is then skipped) or in loop_stop or close; in serial
\* mode disconnect runs the I/O loop in the caller (lines 92-94), which can
\* report a lost connection from there
StopOutcomes ==
    {"done", "disconnect_raised", "loop_stop_raised"}
        \cup (IF connection_type = "serial_port" THEN {"connection_lost"} ELSE {})

\* faulty variant of StopResets: the flags are reset at the end of the try block
StopResets_InTry(outcome) == outcome = "done"

\* lines 311-316: the bare except swallows the exception and finally resets
\* the flags after every outcome
StopResets(outcome) == TRUE

\* lines 302-316
stop ==
    IF mqtt_client = "None"
    THEN /\ last' = <<"stop", "nothing">>
         /\ UNCHANGED <<connection_type, mqtt_client, connected, is_starting,
                        loop_running, subscriptions, connect_calls, unsub_issued>>
    ELSE \E outcome \in StopOutcomes :
         /\ last' = <<"stop", outcome>>
         /\ IF StopResets(outcome)
            THEN connected' = FALSE /\ is_starting' = FALSE
            ELSE UNCHANGED <<connected, is_starting>>
         /\ IF outcome = "connection_lost"
            THEN \* lines 113-117 and 389-393 inside disconnect: a new client
                 \* is created and connected; lines 308-310 then stop it
                 /\ connect_calls < MaxConnects
                 /\ connect_calls' = connect_calls + 1
                 /\ loop_running' = FALSE
            ELSE /\ UNCHANGED connect_calls
                 /\ loop_running' = IF outcome = "done" THEN FALSE ELSE loop_running
         /\ UNCHANGED <<connection_type, mqtt_client, subscriptions, unsub_issued>>

\* lines 318-323: the topic is recorded before mqtt_client is used
subscribe(topic) ==
    /\ Len(subscriptions) < MaxTopics
    /\ subscriptions' = Append(subscriptions, topic)
    /\ last' = <<"subscribe", IF mqtt_client = "None" THEN "raised" ELSE "done">>
    /\ UNCHANGED <<connection_type, mqtt_client, connected, is_starting,
                   loop_running, connect_calls, unsub_issued>>

\* lines 325-330: list.remove raises for an unknown topic; the topic is
\* removed before mqtt_client is used
unsubscribe(topic) ==
    /\ IF \A k \in 1..Len(subscriptions) : subscriptions[k] # topic
       THEN /\ UNCHANGED subscriptions
            /\ unsub_issued' = <<>>
            /\ last' = <<"unsubscribe", "raised">>
       ELSE /\ subscriptions' = Remove(subscriptions, topic)
            /\ unsub_issued' = IF mqtt_client = "None" THEN <<>> ELSE <<topic>>
            /\ last' = <<"unsubscribe", IF mqtt_client = "None" THEN "raised" ELSE "done">>
    /\ UNCHANGED <<connection_type, mqtt_client, connected, is_starting,
                   loop_running, connect_calls>>

\* lines 332-336
unsubscribe_all ==
    /\ IF mqtt_client = "None" /\ subscriptions # <<>>
       THEN \* the first unsubscribe removes its topic and raises
            /\ subscriptions' = Remove(subscriptions, subscriptions[1])
            /\ unsub_issued' = <<>>
            /\ last' = <<"unsubscribe_all", "raised">>
       ELSE LET r == UnsubscribeLoop(subscriptions, 0, <<>>)
            IN  /\ subscriptions' = r.subscriptions
                /\ unsub_issued' = r.issued
                /\ last' = <<"unsubscribe_all", "done">>
    /\ UNCHANGED <<connection_type, mqtt_client, connected, is_starting,
                   loop_running, connect_calls>>

\* ------------------------------------------- MqttClient: callback lists
MaxCallbacks == 2    \* callbacks registered at a time, both lists together

Clients == {"A", "B"}

Callbacks == {"f", "g"}

\* lines 185-186: the two lists are created once, with the class; __init__
\* (lines 203-208) gives an instance no list of its own
\* the registrations followed stay within MaxCallbacks
Registered == Len(message_callbacks) + Len(connected_callbacks)

CallbackInit ==
    /\ message_callbacks = <<>>
    /\ connected_callbacks = <<>>
    /\ own_message = [c \in Clients |-> <<>>]
    /\ own_connected = [c \in Clients |-> <<>>]
    /\ invoked = [client |-> "none", event |-> "none", callbacks |-> <<>>]

\* lines 276-282
add_connected_callback(self, callback) ==
    /\ Registered < MaxCallbacks
    /\ connected_callbacks' = Append(connected_callbacks, callback)
    /\ own_connected' = [own_connected EXCEPT ![self] = Append(@, callback)]
    /\ UNCHANGED <<message_callbacks, own_message, invoked>>

\* lines 284-291
add_message_callback(self, callback) ==
    /\ Registered < MaxCallbacks
    /\ Len(own_message[self]) + Len(own_connected[self]) < MaxCallbacks
    /\ message_callbacks' = Append(message_callbacks, callback)
    /\ own_message' = [own_message EXCEPT ![self] = Append(@, callback)]
    /\ UNCHANGED <<connected_callbacks, own_connected, invoked>>

\* lines 293-296: list.remove raises when the callback is not in the list
del_message_callback(self, callback) ==
    /\ \E k \in 1..Len(message_callbacks) : message_callbacks[k] = callback
    /\ message_callbacks' = Remove(message_callbacks, callback)
    /\ own_message' = [own_message EXCEPT ![self] = Remove(@, callback)]
    /\ UNCHANGED <<connected_callbacks, own_connected, invoked>>

\* lines 298-300
reset_message_callbacks(self) ==
    /\ message_callbacks' = <<>>
    /\ own_message' = [own_message EXCEPT ![self] = <<>>]
    /\ UNCHANGED <<connected_callbacks, own_connected, invoked>>

\* lines 356-370: a message received by client self
on_message(self) ==
    /\ invoked' = [client |-> self, event |-> "message", callbacks |-> message_callbacks]
    /\ UNCHANGED <<message_callbacks, connected_callbacks, own_message, own_connected>>

\* lines 377-381: the callbacks called when client self is connected
notify_connected(self) ==
    /\ invoked' = [client |-> self, event |-> "connected", callbacks |-> connected_callbacks]
    /\ UNCHANGED <<message_callbacks, connected_callbacks, own_message, own_connected>>

PoolInit == workers = <<>>

Init == TunnelInit /\ WatchInit /\ PoolInit /\ ClientInit("unix_socket") /\ CallbackInit

Next ==
    /\ \/ CreateBrokerSock \/ ConnectClient \/ WaitForData \/ ConnectBroker
       \/ Select \/ RecvClient \/ RecvBroker \/ SendBroker \/ SendClient
       \/ Finally \/ Sleep
       \/ ClientWrites \/ BrokerWrites \/ ClientCloses \/ BrokerCloses
    /\ UNCHANGED <<watchVars, poolVars, clientVars, callbackVars>>

Spec == Init /\ [][Next]_vars

\* a worker for any discovered socket, any configured broker path and any slot
TunnelerSpecInit ==
    /\ WorkerInit
    /\ \E client_socket \in Names, broker_path \in BrokerPaths, n \in 1..MaxNames :
          TunnelerInit(client_socket, broker_path, n)
    /\ WatchInit
    /\ PoolInit
    /\ ClientInit("unix_socket")
    /\ CallbackInit

TunnelerSpec == TunnelerSpecInit /\ [][Next]_vars

WatchNext ==
    /\ \/ FileAppears \/ FileDisappears
       \/ BrokerSocketAppears \/ BrokerSocketDisappears
       \/ WaitForBrokerSocket \/ WatchPoll
    /\ UNCHANGED <<tunnelVars, poolVars, clientVars, callbackVars>>

WatchSpec == Init /\ [][WatchNext]_vars

\* --------------------------------------------- the watcher and its threads
\* Each started thread runs create_msg_tunnel, i.e. tunnel(), on its own
\* tunneler object and its own locals. workers[i] is the position of thread i
\* in tunnel(), one relay pass taken as one step:
\*   pc      as for the single worker above
\*   bound   tunnel's local client_sock was bound once
\*   relayed the current session has moved bytes
NewWorker == [pc |-> "create_broker_sock", bound |-> FALSE, relayed |-> FALSE]

\* faulty variant of WatcherRuns: the watcher runs create_msg_tunnel itself
\* and is back in its loop only when the tunnel has ended
WatcherRuns_Inline ==
    /\ mpc = "watch_msg_sockets"
    /\ \A i \in 1..Len(workers) : workers[i].pc = "dead"

\* line 256: Thread(...).start() returns at once; the watcher is in its loop
\* whatever the threads it started are doing
WatcherRuns == mpc = "watch_msg_sockets"

\* lines 247-260 with the threads started at line 256
PoolPoll ==
    /\ WatcherRuns
    /\ WatchPoll
    /\ workers' = workers \o [i \in 1..(Len(threads') - Len(threads)) |-> NewWorker]

\* lines 88-96 and 175-182 for thread i: the steps around the relay session
PoolWorkerStep(i) ==
    /\ i \in 1..Len(workers)
    /\ LET w == workers[i]
           to(p) == workers' = [workers EXCEPT ![i].pc = p, ![i].relayed = FALSE]
       IN  \/ w.pc = "create_broker_sock" /\ to("connect_client")
           \/ w.pc = "connect_client" /\ (to("wait_for_data") \/ to("finally"))
           \/ /\ w.pc = "wait_for_data"
              /\ workers' = [workers EXCEPT ![i].pc = "connect_broker", ![i].bound = TRUE]
           \/ w.pc = "connect_broker" /\ (to("select") \/ to("finally"))
           \/ w.pc = "select" /\ to("finally")
           \/ w.pc = "finally" /\ (IF w.bound THEN to("sleep") ELSE to("dead"))
           \/ w.pc = "sleep" /\ to("create_broker_sock")
    /\ UNCHANGED watchVars

\* lines 98-173 for thread i: a relay pass that moves bytes of its tunnel
PoolRelayPass(i) ==
    /\ i \in 1..Len(workers)
    /\ workers[i].pc = "select"
    /\ workers' = [workers EXCEPT ![i].relayed = TRUE]
    /\ UNCHANGED watchVars

PoolWorkerSteps == \E i \in 1..Len(workers) : PoolWorkerStep(i)

PoolRelayPasses == \E i \in 1..Len(workers) : PoolRelayPass(i)

\* the directory only gains files here: what a thread does never depends on
\* the directory's later content
PoolNext ==
    /\ \/ FileAppears /\ UNCHANGED workers
       \/ WaitForBrokerSocket /\ UNCHANGED workers
       \/ PoolPoll
       \/ PoolWorkerSteps
       \/ PoolRelayPasses
    /\ UNCHANGED <<tunnelVars, clientVars, callbackVars>>

PoolSpec == Init /\ [][PoolNext]_vars

\* ----------------------------------------------- the MqttClient on its own
ClientSpecInit ==
    /\ TunnelInit
    /\ WatchInit
    /\ PoolInit
    /\ \E type \in ConnectionTypes : ClientInit(type)
    /\ CallbackInit

ClientNext ==
    /\ \/ start
       \/ on_connected
       \/ on_connection_lost
       \/ stop
       \/ \E topic \in Topics : subscribe(topic)
       \/ \E topic \in Topics : unsubscribe(topic)
       \/ unsubscribe_all
    /\ UNCHANGED <<tunnelVars, watchVars, poolVars, callbackVars>>

ClientSpec == ClientSpecInit /\ [][ClientNext]_vars

\* ------------------------------------- two MqttClient objects' callbacks
CallbackNext ==
    /\ \E self \in Clients :
          \/ \E callback \in Callbacks : add_connected_callback(self, callback)
          \/ \E callback \in Callbacks : add_message_callback(self, callback)
          \/ \E callback \in Callbacks : del_message_callback(self, callback)
          \/ reset_message_callbacks(self)
          \/ on_message(self)
          \/ notify_connected(self)
    /\ UNCHANGED <<tunnelVars, watchVars, poolVars, clientVars>>

CallbackSpec == Init /\ [][CallbackNext]_vars

\* ------------------------------------------------------------- scheduling
\* the worker thread keeps running, and the transport makes progress: select
\* reports a destination write-ready, a recv on a read-ready socket returns
\* what is pending (data or end of file), a send to an open peer is accepted.
\* The sockets are blocking ones, so that a would-block cannot repeat for ever.
WorkerStep ==
    \/ CreateBrokerSock \/ ConnectClient \/ WaitForData \/ ConnectBroker
    \/ Select \/ RecvClient \/ RecvBroker \/ SendBroker \/ SendClient
    \/ Finally \/ Sleep

Fairness ==
    /\ WF_vars(WorkerStep /\ UNCHANGED <<watchVars, poolVars, clientVars, callbackVars>>)
    /\ SF_vars(Select /\ writable' = WList /\ UNCHANGED <<watchVars, poolVars, clientVars, callbackVars>>)
    /\ SF_vars(RecvClient /\ (rcvd' # rcvd \/ reason' = "client_closed") /\ UNCHANGED <<watchVars, poolVars, clientVars, callbackVars>>)
    /\ SF_vars(RecvBroker /\ (rcvd' # rcvd \/ reason' = "broker_closed") /\ UNCHANGED <<watchVars, poolVars, clientVars, callbackVars>>)
    /\ SF_vars(SendBroker /\ delivered' # delivered /\ UNCHANGED <<watchVars, poolVars, clientVars, callbackVars>>)
    /\ SF_vars(SendClient /\ delivered' # delivered /\ UNCHANGED <<watchVars, poolVars, clientVars, callbackVars>>)

FairSpec == Init /\ [][Next]_vars /\ Fairness

\* ===================================================================== C1
\* C1: while a relay session runs, in each direction the bytes already sent
\* to the destination followed by that direction's buffer are exactly the
\* bytes received so far from the source, in arrival order; and a send that
\* accepted k bytes leaves the buffer as its previous content minus the
\* first k bytes.
C1_StreamState ==
    Relaying =>
        /\ delivered["broker"] \o client_to_broker_buffer = rcvd["client"]
        /\ delivered["client"] \o broker_to_client_buffer = rcvd["broker"]

C1_SendStep ==
    /\ (pc = "send_broker" /\ delivered'["broker"] # delivered["broker"]) =>
          \E k \in 1..Len(client_to_broker_buffer) :
             /\ delivered'["broker"] = delivered["broker"] \o SubSeq(client_to_broker_buffer, 1, k)
             /\ client_to_broker_buffer' =
                    SubSeq(client_to_broker_buffer, k + 1, Len(client_to_broker_buffer))
    /\ (pc = "send_client" /\ delivered'["client"] # delivered["client"]) =>
          \E k \in 1..Len(broker_to_client_buffer) :
             /\ delivered'["client"] = delivered["client"] \o SubSeq(broker_to_client_buffer, 1, k)
             /\ broker_to_client_buffer' =
                    SubSeq(broker_to_client_buffer, k + 1, Len(broker_to_client_buffer))

C1_ByteOrderPreserved == []C1_StreamState /\ [][C1_SendStep]_vars

\* a partial delivery in both directions: one byte sent, one still buffered
C1_Witness ==
    /\ Relaying
    /\ Len(delivered["broker"]) = 1 /\ Len(client_to_broker_buffer) = 1
    /\ Len(delivered["client"]) = 1 /\ Len(broker_to_client_buffer) = 1

\* ===================================================================== C3
\* C3: a tunnel worker has no terminal state: whatever fails in an attempt,
\* on the first attempt as on a later one, the worker thread never ends.
C3_WorkerNeverEnds == pc # "dead"

\* ===================================================================== C4
PeerClosedReasons == {"client_closed", "broker_closed"}

\* C4: a zero-length read on either socket while Relaying ends the relay
\* session; the finally block then closes both the client and the broker
\* socket, and after the backoff the worker starts a new attempt.
C4_SessionEnded ==
    reason \in PeerClosedReasons =>
        /\ pc \in {"finally", "sleep", "create_broker_sock"}
        /\ pc # "finally" => (client_sock = "closed" /\ broker_sock = "closed")

C4_Steps ==
    /\ (Relaying /\ reason' \in PeerClosedReasons) => pc' = "finally"
    /\ (pc = "finally" /\ reason \in PeerClosedReasons /\ pc' # pc) =>
          (pc' = "sleep" /\ client_sock' = "closed" /\ broker_sock' = "closed")
    /\ (pc = "sleep" /\ pc' # pc) => (pc' = "create_broker_sock" /\ slept' = 1)
    /\ (pc = "create_broker_sock" /\ pc' # pc) => pc' = "connect_client"

C8_BrokerConnectAfterFirstByte ==
    (pc = "connect_broker" \/ BrokerConnected) =>
        (client_sock = "open" /\ Written("client") # <<>>)

\* ===================================================================== C9
\* C9: from every state it is entered in, the finally block completes: both
\* sockets closed, both buffers empty, then the backoff sleep.
C9_Step ==
    (pc = "finally" /\ pc' # pc) =>
        /\ pc' = "sleep"
        /\ client_sock' = "closed"
        /\ broker_sock' = "closed"
        /\ client_to_broker_buffer' = <<>>
        /\ broker_to_client_buffer' = <<>>

C9_TearDownCompletes == [][C9_Step]_vars

\* ==================================================================== C10
\* the attempt is over: control has left the finally block
AttemptOver == pc \in {"sleep", "dead"}

\* C10: at the end of every attempt both sockets of tunnel are closed and
\* both buffers are empty; at the start of a relay session both buffers are
\* empty.
C10_AttemptLeavesNothing ==
    /\ AttemptOver =>
          /\ client_sock \in {"unbound", "closed"}
          /\ broker_sock \in {"unbound", "closed"}
          /\ client_to_broker_buffer = <<>>
          /\ broker_to_client_buffer = <<>>
    /\ (pc = "select" /\ rcvd = Empty) =>
          (client_to_broker_buffer = <<>> /\ broker_to_client_buffer = <<>>)

\* ===================================================================== C2
\* the first n bytes the source wrote have been delivered to the destination
DeliveredPrefix(src, dst, n) ==
    /\ Len(delivered[dst]) >= n
    /\ SubSeq(delivered[dst], 1, n) = SubSeq(Written(src), 1, n)

\* C2 as stated: every byte written to one socket of a session that relayed
\* is delivered to the other socket. Once the attempt is over nothing more is
\* delivered, so the bytes written must all have been delivered by then; taken
\* for the client-to-broker direction with a broker that never closed.
C2_AllWrittenDelivered ==
    (pc = "sleep" /\ reason = "client_closed" /\ ~peer_closed["broker"]) =>
        delivered["broker"] = Written("client")

\* C2 amended: as long as the session keeps relaying, every byte written to
\* one socket is eventually delivered to the other, in order; a session may
\* end (zero-length read, I/O error) with bytes not delivered.
C2_DeliveredWhileRelaying ==
    \A n \in 1..MaxBytes :
        /\ (Relaying /\ Len(Written("client")) >= n)
              ~> (~Relaying \/ DeliveredPrefix("client", "broker", n))
        /\ (Relaying /\ Len(Written("broker")) >= n)
              ~> (~Relaying \/ DeliveredPrefix("broker", "client", n))

\* everything both peers wrote has been delivered, the session still relays
C2_Witness ==
    /\ Relaying
    /\ Len(Written("client")) = MaxBytes
    /\ Len(Written("broker")) = MaxBytes
    /\ delivered["broker"] = Written("client")
    /\ delivered["client"] = Written("broker")

\* ===================================================================== C5
\* the threads started for the entry name
ThreadsOf(name) == {i \in 1..Len(threads) : threads[i].file = name}

\* C5: each distinct non-empty name that a poll has listed has exactly one
\* thread, a name never listed has none, the empty name has none; and a poll
\* whose listing holds no name absent from the Discovery Set starts no thread.
C5_OneThreadPerName ==
    /\ \A name \in Names :
          Cardinality(ThreadsOf(name)) = (IF name \in sockets THEN 1 ELSE 0)
    /\ ThreadsOf(<<>>) = {}

C5_PollStep ==
    (mpc = "watch_msg_sockets" /\ Range(files') \subseteq sockets)
        => (threads' = threads /\ n_socket' = n_socket)

C5_ExactlyOneWorker == []C5_OneThreadPerName /\ [][C5_PollStep]_vars

\* every name has been discovered and the last poll listed known names only
C5_Witness ==
    /\ Len(threads) = MaxNames
    /\ Names \subseteq sockets
    /\ Range(files) \cap Names # {}

\* ===================================================================== C6
\* C6: no two started threads have the same slot id, hence no two connect to
\* the same broker socket path; no name has two slots; and the slot given to
\* a thread never changes afterwards.
C6_DistinctSlots ==
    \A i, j \in 1..Len(threads) :
        i # j =>
            /\ threads[i].n_socket # threads[j].n_socket
            /\ BrokerSocketPath(threads[i].n_socket) # BrokerSocketPath(threads[j].n_socket)
            /\ threads[i].file # threads[j].file

C6_SlotKept ==
    /\ Len(threads') >= Len(threads)
    /\ \A i \in 1..Len(threads) : threads'[i] = threads[i]

C6_SlotsNeverReused == []C6_DistinctSlots /\ [][C6_SlotKept]_vars

\* two names discovered in different polls, the first one listed again
C6_Witness ==
    /\ Len(threads) >= 2
    /\ threads[1].file \in Range(files)
    /\ threads[1].n_socket # threads[2].n_socket

\* ===================================================================== C7
\* C7: watch_msg_sockets starts only after wait_for_broker_socket has seen at
\* least one broker socket entry in a listing.
C7_DiscoveryAfterBrokerSocket ==
    mpc = "watch_msg_sockets" =>
        \E i \in 1..Len(broker_files) : broker_files[i] \in BrokerNames

\* ==================================================================== C11
\* the bytes of `before` that are no longer in `after`
Gone(before, after) == Range(before) \ Range(after)

\* the bytes a step adds to what was delivered to side
NewlySent(side) == Range(delivered'[side]) \ Range(delivered[side])

\* C11 as stated: a byte leaves an outbound buffer only by being sent to the
\* other peer's socket.
C11_LeavesOnlySent ==
    /\ Gone(client_to_broker_buffer, client_to_broker_buffer') \subseteq NewlySent("broker")
    /\ Gone(broker_to_client_buffer, broker_to_client_buffer') \subseteq NewlySent("client")

C11_NoByteDiscarded == [][C11_LeavesOnlySent]_vars

\* C11 amended: a byte leaves an outbound buffer only by being sent to the
\* other peer's socket, or when the finally block clears both buffers at the
\* end of the attempt.
C11_LeavesSentOrCleared ==
    C11_LeavesOnlySent \/ (pc = "finally" /\ pc' = "sleep")

C11_DiscardedOnlyAtTearDown == [][C11_LeavesSentOrCleared]_vars

\* of two bytes received from the client one was sent, the other was cleared
C11_Witness ==
    /\ pc = "sleep"
    /\ Len(rcvd["client"]) = 2
    /\ Len(delivered["broker"]) = 1
    /\ client_to_broker_buffer = <<>>

\* ==================================================================== C12
\* C12: a new attempt starts either as the very first one or after exactly
\* one backoff sleep since the previous attempt ended; control reaches the
\* start of an attempt from the sleep only.
C12_SleptBeforeRetry ==
    /\ slept \in {0, 1}
    /\ (pc = "create_broker_sock" /\ broker_sock # "unbound") => slept = 1
    /\ pc \in {"connect_client", "wait_for_data", "connect_broker", "finally"} => slept = 0

C12_Steps ==
    /\ (pc' = "create_broker_sock" /\ pc # pc') => (pc = "sleep" /\ slept = 0 /\ slept' = 1)
    /\ (pc' = "connect_client" /\ pc # pc') => pc = "create_broker_sock"
    /\ (pc = "finally" /\ pc' # pc) => pc' \in {"sleep", "dead"}

C12_BackoffBetweenAttempts == []C12_SleptBeforeRetry /\ [][C12_Steps]_vars

\* the broker connect failed, the worker slept once and is about to retry
C12_Witness ==
    /\ pc = "create_broker_sock"
    /\ reason = "broker_connect_failed"
    /\ slept = 1

\* ==================================================================== C19
\* C19: a socket is in the write-interest set exactly when the buffer of the
\* bytes destined for it is not empty; send is never called with an empty
\* buffer; a would-block changes neither buffer; the session leaves Relaying
\* only on a zero-length read or on an I/O error.
C19_WriteInterest ==
    /\ (pc \in {"recv_client", "recv_broker", "send_broker"} /\ "broker" \in writable)
          => client_to_broker_buffer # <<>>
    /\ (pc \in {"recv_client", "recv_broker", "send_broker", "send_client"}
           /\ "client" \in writable)
          => broker_to_client_buffer # <<>>
    /\ (pc = "select" /\ client_to_broker_buffer # <<>>)
          => ENABLED (Select /\ "broker" \in writable')
    /\ (pc = "select" /\ broker_to_client_buffer # <<>>)
          => ENABLED (Select /\ "client" \in writable')

C19_Steps ==
    /\ (pc = "send_broker" /\ (delivered' # delivered \/ pc' = "finally"))
          => ("broker" \in writable /\ client_to_broker_buffer # <<>>)
    /\ (pc = "send_client" /\ (delivered' # delivered \/ pc' = "finally"))
          => ("client" \in writable /\ broker_to_client_buffer # <<>>)
    /\ (Relaying /\ Relaying' /\ rcvd' = rcvd /\ delivered' = delivered)
          => UNCHANGED <<client_to_broker_buffer, broker_to_client_buffer>>
    /\ (Relaying /\ ~Relaying')
          => /\ pc' = "finally"
             /\ reason' \in {"client_closed", "broker_closed", "io_error"}
    /\ (Relaying /\ reason' = "client_closed")
          => (pc = "recv_client" /\ inflight["client"] = <<>> /\ peer_closed["client"])
    /\ (Relaying /\ reason' = "broker_closed")
          => (pc = "recv_broker" /\ inflight["broker"] = <<>> /\ peer_closed["broker"])

C19_RelayPass == []C19_WriteInterest /\ [][C19_Steps]_vars

\* select reported the broker socket alone as write-ready: only the
\* client-to-broker buffer holds bytes
C19_Witness ==
    /\ pc = "send_broker"
    /\ writable = {"broker"}
    /\ client_to_broker_buffer # <<>>
    /\ broker_to_client_buffer = <<>>

\* ==================================================================== C13
\* C13: a poll whose listing failed or was empty starts no thread, allocates
\* no slot id and leaves the discovery loop running; the loop can always poll
\* again, and every name a poll lists has a thread after that poll.
C13_LoopAlive == mpc = "watch_msg_sockets" => ENABLED WatchPoll

C13_Steps ==
    /\ (mpc = "watch_msg_sockets" /\ files' = <<<<>>>>)
          => (threads' = threads /\ n_socket' = n_socket /\ mpc' = "watch_msg_sockets")
    /\ mpc = "watch_msg_sockets" =>
          \A name \in Range(files') \cap Names :
              \E i \in 1..Len(threads') : threads'[i].file = name

C13_EmptyListingHarmless == []C13_LoopAlive /\ [][C13_Steps]_vars

\* a file exists but the listing came back empty: nothing started, no slot used
C13_Witness ==
    /\ mpc = "watch_msg_sockets"
    /\ files = <<<<>>>>
    /\ msg_dir # {}
    /\ threads = <<>>
    /\ n_socket = 1

\* ==================================================================== C14
\* C14: the Discovery Set only grows, it holds every name of the last
\* listing, and no name ever gets a second thread.
C14_HoldsListing ==
    /\ Range(files) \subseteq sockets
    /\ \A name \in Names : Cardinality(ThreadsOf(name)) <= 1

C14_Grows == sockets \subseteq sockets'

C14_DiscoverySetMonotone == []C14_HoldsListing /\ [][C14_Grows]_vars

\* a discovered file was deleted and a later poll did not list it: the set
\* still holds its name
C14_Witness ==
    \E name \in Names :
        /\ name \in sockets
        /\ name \notin msg_dir
        /\ name \notin Range(files)
        /\ Cardinality(ThreadsOf(name)) = 1

\* ==================================================================== C15
\* C15: never more tunnels created than there are broker sockets.
C15_TunnelsWithinBrokerSockets == Len(threads) <= Cardinality(broker_dir)

\* ==================================================================== C20
\* C20: the tunneler's fields never change; every connect to the client goes
\* to client_socket_path and every connect to the broker goes to the template
\* /tmp/mqtt_msg_<n_socket>.sock, whatever the configured broker path is.
C20_Targets ==
    /\ client_addr \in {NoAddr, client_socket_path}
    /\ broker_addr \in {NoAddr, <<"/tmp/mqtt_msg_", self_n_socket, ".sock">>}

C20_Steps ==
    /\ UNCHANGED <<client_socket_path, broker_socket_path, self_n_socket>>
    /\ client_addr # NoAddr => client_addr' = client_addr
    /\ broker_addr # NoAddr => broker_addr' = broker_addr

C16_NothingBlocked ==
    /\ mpc = "watch_msg_sockets" => ENABLED PoolPoll
    /\ \A name \in msg_dir \ sockets :
          mpc = "watch_msg_sockets" =>
             ENABLED (PoolPoll /\ \E i \in 1..Len(threads') : threads'[i].file = name)
    /\ \A i \in 1..Len(workers) :
          workers[i].pc = "select" => ENABLED (PoolRelayPass(i) /\ workers'[i].relayed)

C16_Steps ==
    \A i \in 1..Len(workers) :
        workers'[i] # workers[i] =>
            /\ UNCHANGED watchVars
            /\ \A j \in 1..Len(workers) : j # i => workers'[j] = workers[j]

C16_WorkersIndependent == []C16_NothingBlocked /\ [][C16_Steps]_vars

\* the first thread is blocked waiting for its client's first byte, the
\* second one, started meanwhile or before, has relayed bytes
C16_Witness ==
    /\ Len(workers) = 2
    /\ workers[1].pc = "wait_for_data"
    /\ workers[2].pc = "select"
    /\ workers[2].relayed

\* ==================================================================== C17
\* C17: start() does nothing only while the client is connected or a
\* connection attempt is in progress (connect went through and the loop
\* thread waits for the broker's answer); in particular it connects again
\* after an attempt whose connect raised.
AttemptInProgress == is_starting /\ loop_running /\ ~connected

C17_StartRetriesAfterFailure ==
    last = <<"start", "noop">> => connected \/ AttemptInProgress

\* ==================================================================== C18
\* C18: when unsubscribe_all() returns, the subscription list is empty and
\* unsubscribe was issued to the broker for every topic the list held.
C18_Step ==
    (unsubscribe_all /\ last' = <<"unsubscribe_all", "done">>) =>
        /\ subscriptions' = <<>>
        /\ \A k \in 1..Len(subscriptions) :
              \E j \in 1..Len(unsub_issued') : unsub_issued'[j] = subscriptions[k]

C18_UnsubscribeAllEmpties == [][C18_Step]_vars

\* ==================================================================== C21
\* C21: when stop() has returned on a client whose mqtt_client is set,
\* connected and is_starting are both False whatever disconnect, loop_stop or
\* close did, and a start() that follows makes a connection attempt.
C21_FlagsDown ==
    (last[1] = "stop" /\ mqtt_client # "None") =>
        /\ ~connected
        /\ ~is_starting
        /\ connect_calls < MaxConnects =>
              ENABLED (start /\ connect_calls' = connect_calls + 1)

C21_Steps ==
    (start /\ last[1] = "stop" /\ mqtt_client # "None") =>
        /\ connect_calls' = connect_calls + 1
        /\ is_starting'

C21_StopAllowsRestart == []C21_FlagsDown /\ [][C21_Steps]_vars

\* stop() on a connected client whose disconnect raised, so that the loop
\* thread was never stopped
C21_Witness ==
    /\ last = <<"stop", "disconnect_raised">>
    /\ mqtt_client = "set"
    /\ loop_running
    /\ connect_calls = 1
    /\ ~connected
    /\ ~is_starting

\* ==================================================================== C22
\* C22: in serial mode a lost connection reported by the I/O loop can be
\* handled in every state the loop runs in, a start still in progress
\* included, and handling it creates a new client and calls connect, with
\* connected down and is_starting up.
C22_LossHandled ==
    (connection_type = "serial_port" /\ loop_running /\ connect_calls < MaxConnects) =>
        ENABLED (on_connection_lost /\ connect_calls' = connect_calls + 1)

C22_Steps ==
    on_connection_lost =>
        /\ connect_calls' = connect_calls + 1
        /\ mqtt_client' = "set"
        /\ is_starting'
        /\ ~connected'
        /\ last'[1] = "on_connection_lost"

C22_LossReconnects == []C22_LossHandled /\ [][C22_Steps]_vars

\* the connection was lost and the second connect went through
C22_Witness ==
    /\ connection_type = "serial_port"
    /\ last = <<"on_connection_lost", "connecting">>
    /\ connect_calls = 2
    /\ loop_running
    /\ is_starting
    /\ ~connected

\* ==================================================================== C23
\* C23: the k threads started so far hold the slot ids 1..k in the order of
\* their start and the counter is k+1; the counter never decreases and
\* advances by exactly the number of threads a step starts.
C23_SlotsAreOneToK ==
    /\ \A i \in 1..Len(threads) : threads[i].n_socket = i
    /\ n_socket = Len(threads) + 1

C23_Steps ==
    /\ n_socket' >= n_socket
    /\ n_socket' - n_socket = Len(threads') - Len(threads)

C23_ConsecutiveSlots == []C23_SlotsAreOneToK /\ [][C23_Steps]_vars

\* all names were given a slot, and the last poll, whose listing was empty,
\* took none
C23_Witness ==
    /\ mpc = "watch_msg_sockets"
    /\ Len(threads) = MaxNames
    /\ n_socket = MaxNames + 1
    /\ files = <<<<>>>>
    /\ msg_dir # {}

\* ==================================================================== C24
\* C24: a dispatch for one client calls exactly the callbacks added through
\* that client (and not removed through it), and del_message_callback or
\* reset_message_callbacks on one client leaves every callback added through
\* the other client in place.
RECURSIVE Occurrences(_, _)
Occurrences(list, x) ==
    IF list = <<>> THEN 0
    ELSE (IF Head(list) = x THEN 1 ELSE 0) + Occurrences(Tail(list), x)

C24_Steps ==
    \A self \in Clients :
        /\ on_message(self) => invoked'.callbacks = own_message[self]
        /\ notify_connected(self) => invoked'.callbacks = own_connected[self]
        /\ (reset_message_callbacks(self)
                \/ \E callback \in Callbacks : del_message_callback(self, callback)) =>
              \A other \in Clients \ {self} : \A callback \in Callbacks :
                  Occurrences(message_callbacks', callback)
                      >= Occurrences(own_message[other], callback)

C24_CallbacksIsolated == [][C24_Steps]_vars

====
